---- MODULE Spec2Model ----
(***************************************************************************)
(* Model of bin/testkit.js: run2 starts a server process, polls a URL      *)
(* until it answers, runs a driver process to completion and shuts the     *)
(* server down with gracefulShutdown (initial signal, escalation timer,    *)
(* SIGKILL).  One action is one turn of the Node event loop: a callback    *)
(* together with the synchronous code and promise continuations it runs.   *)
(* Times are in milliseconds.                                              *)
(***************************************************************************)
EXTENDS Integers, Sequences, FiniteSets, TLC

VARIABLES
    pc,            \* position of the async chain main -> run2 -> ...
    now,           \* Date.now(), ms since the orchestrator started
    startTime,     \* waitForUrl: startTime
    probeSent,     \* time the fetch in flight was issued
    sleepDue,      \* due time of the inter-poll setTimeout
    serverProcess, \* run2: serverProcess is not null
    srvOs,         \* the server as the OS has it
    srvHow,        \* how the server died, until Node has reported it
    exitCode,      \* serverProcess.exitCode
    signalCode,    \* serverProcess.signalCode
    exitPromise,   \* gracefulShutdown: exitPromise
    timer,         \* gracefulShutdown: the setTimeout behind timeoutPromise
    timerDue,      \* due time of that timer
    signals,       \* calls of serverProcess.kill, in order
    drv,           \* the driver process of spawnProcess
    drvCode,       \* code of the driver's 'close' event
    caught,        \* the error run2's catch block received
    okSeen,        \* a fetch has answered with response.ok
    sdCalls,       \* number of calls of gracefulShutdown
    raceWinner,    \* which promise settled Promise.race
    sdResult,      \* value gracefulShutdown resolved with
    orchExit       \* exit code of the orchestrator process

vars == <<pc, now, startTime, probeSent, sleepDue, serverProcess, srvOs, srvHow,
          exitCode, signalCode, exitPromise, timer, timerDue, signals, drv,
          drvCode, caught, okSeen, sdCalls,  raceWinner,
          sdResult, orchExit>>

\* ---------------------------------------------------------------- bounds
\* Granularity of the clock: time advances in steps of TickMs ms.
TickMs == 500
\* A fetch answers at most MaxProbeLatency ms after it was issued.
MaxProbeLatency == 1000

\* ------------------------------------------------------ program constants
timeout == 60000
PollDelay == 500
timeoutMs == 5000
signal == "SIGTERM"

\* null of exitCode, and of signalCode
NoCode == -1
NoSignal == "null"
\* the orchestrator process has not terminated
Running == -1

ProbeOutcomes == {"ok", "notok", "error"}
SpawnOutcomes == {"ok", "enoent", "throw"}
DriverSpawnOutcomes == {"ok", "enoent"}
DriverCodes == {0, 2}

Alive == orchExit = Running

\* A spawn failure is reported by an 'error' event queued with
\* process.nextTick: it runs before any other callback.
SpawnErrorPending == srvOs = "failed" \/ drv = "failed"

\* ------------------------------------------------------- gracefulShutdown
\* line 147: the process is already dead
AlreadyDeadExitCodeOnly == exitCode # NoCode
AlreadyDeadNegated == exitCode = NoCode \/ signalCode = NoSignal
AlreadyDead == exitCode # NoCode \/ signalCode # NoSignal

\* line 159: setTimeout(..., timeoutMs) set at time t
TimerDueNoDelay(t) == t
TimerDue(t) == t + timeoutMs

\* line 174: SIGKILL has been sent
SigkillSent == \E i \in DOMAIN signals : signals[i].sig = "SIGKILL"

\* lines 164, 174: childProcess.kill(sig); childProcess is the server (line 129)
KillAlwaysSigkill(sig) == Append(signals, [sig |-> "SIGKILL", at |-> now, to |-> "server"])
Kill(sig) == Append(signals, [sig |-> sig, at |-> now, to |-> "server"])

\* lines 145-167: gracefulShutdown up to its first await
GracefulShutdown ==
    /\ sdCalls' = sdCalls + 1
    /\ IF AlreadyDead
       THEN /\ sdResult' = "true"
            /\ pc' = "returned"
            /\ UNCHANGED <<exitPromise, timer, timerDue, signals>>
       ELSE /\ exitPromise' = "pending"
            /\ timer' = "armed"
            /\ timerDue' = TimerDue(now)
            /\ signals' = Kill(signal)
            /\ pc' = "sd_race"
            /\ UNCHANGED sdResult

\* lines 126-131: the finally block of run2; sp is serverProcess
Finally(sp) ==
    IF sp
    THEN GracefulShutdown
    ELSE /\ pc' = "returned"
         /\ UNCHANGED <<sdCalls,  sdResult, exitPromise, timer,
                        timerDue, signals>>

\* lines 124-131: an error thrown in the try block
CatchNoFinally(err, sp) ==
    /\ caught' = err
    /\ pc' = "returned"
    /\ UNCHANGED <<sdCalls, sdResult, exitPromise, timer, timerDue, signals>>
Catch(err, sp) ==
    /\ caught' = err
    /\ Finally(sp)

\* ------------------------------------------------------------- waitForUrl
\* line 43: the loop condition, at time t
LoopCondition(t, st) == t - st < timeout

\* line 46: the response counts as success
ProbeSucceededAnyResponse(o) == o # "error"
ProbeSucceededNever(o) == FALSE
ProbeSucceededBeforeDeadline(o) == o = "ok" /\ now - startTime < timeout
ProbeSucceeded(o) == o = "ok"

\* lines 44-52: the try/catch of the loop absorbs a failed fetch
AbsorbedNothing(o) == o = "notok"
Absorbed(o) == o \in {"notok", "error"}

\* lines 43-45, 56: one pass through the loop head, st is startTime
LoopHead(st, sp) ==
    IF LoopCondition(now, st)
    THEN /\ pc' = "probing"
         /\ probeSent' = now
         /\ UNCHANGED <<caught, sdCalls,  sdResult, exitPromise,
                        timer, timerDue, signals>>
    ELSE /\ Catch("timeout", sp)
         /\ UNCHANGED probeSent

\* ------------------------------------------------------------------ Init
Init ==
    /\ pc = "init"
    /\ now = 0
    /\ startTime = 0
    /\ probeSent = 0
    /\ sleepDue = 0
    /\ serverProcess = FALSE
    /\ srvOs = "none"
    /\ srvHow = "none"
    /\ exitCode = NoCode
    /\ signalCode = NoSignal
    /\ exitPromise = "none"
    /\ timer = "none"
    /\ timerDue = 0
    /\ signals = <<>>
    /\ drv = "none"
    /\ drvCode = NoCode
    /\ caught = "none"
    /\ okSeen = FALSE
    /\ sdCalls = 0
    /\ raceWinner = "none"
    /\ sdResult = "none"
    /\ orchExit = Running

\* ------------------------------------------------------------------ run2
\* lines 104-118, 41-45: main calls run2, which spawns the server, registers
\* the 'error' listener and enters waitForUrl up to its first fetch.
Start ==
    /\ pc = "init"
    /\ Alive
    /\ \E o \in SpawnOutcomes :
        IF o = "throw"
        THEN /\ Catch("spawn", serverProcess)
             /\ UNCHANGED <<serverProcess, srvOs, startTime, probeSent>>
        ELSE /\ serverProcess' = TRUE
             /\ srvOs' = IF o = "ok" THEN "running" ELSE "failed"
             /\ startTime' = now
             /\ LoopHead(now, TRUE)
    /\ UNCHANGED <<now, sleepDue, srvHow, exitCode, signalCode, drv, drvCode,
                   okSeen, raceWinner, orchExit>>

\* lines 112-115: the server's 'error' listener
ServerErrorListenerLogOnly ==
    /\ Alive
    /\ srvOs = "failed"
    /\ serverProcess
    /\ srvOs' = "none"
    /\ UNCHANGED <<pc, now, startTime, probeSent, sleepDue, serverProcess,
                   srvHow, exitCode, signalCode, exitPromise, timer,
                   timerDue, signals, drv, drvCode, caught, okSeen,
                   sdCalls, raceWinner, sdResult, orchExit>>
ServerErrorListener ==
    /\ Alive
    /\ srvOs = "failed"
    /\ serverProcess
    /\ orchExit' = 1
    /\ UNCHANGED <<pc, now, startTime, probeSent, sleepDue, serverProcess,
                   srvOs, srvHow, exitCode, signalCode, exitPromise, timer,
                   timerDue, signals, drv, drvCode, caught, okSeen,
                   sdCalls,  raceWinner, sdResult>>

\* lines 120-122, 12-17: await spawnProcess(...), d is the spawn's outcome
RunDriverNoAwait(d) ==
    /\ drv' = IF d = "ok" THEN "running" ELSE "failed"
    /\ Finally(serverProcess)
    /\ UNCHANGED caught
RunDriver(d) ==
    /\ drv' = IF d = "ok" THEN "running" ELSE "failed"
    /\ pc' = "driver"
    /\ UNCHANGED <<caught, sdCalls,  sdResult, exitPromise, timer,
                   timerDue, signals>>

\* lines 45-54, 118-122: the fetch in flight settles with outcome o
ProbeReturn(o) ==
    /\ pc = "probing"
    /\ Alive
    /\ ~SpawnErrorPending
    /\ okSeen' = (okSeen \/ o = "ok")
    /\ IF ProbeSucceeded(o)
       THEN /\ \E d \in DriverSpawnOutcomes : RunDriver(d)
            /\ UNCHANGED sleepDue
       ELSE IF Absorbed(o)
       THEN /\ pc' = "sleeping"
            /\ sleepDue' = now + PollDelay
            /\ UNCHANGED <<drv, caught, sdCalls,  sdResult,
                           exitPromise, timer, timerDue, signals>>
       ELSE /\ Catch("fetch", serverProcess)
            /\ UNCHANGED <<drv, sleepDue>>
    /\ UNCHANGED <<now, startTime, probeSent, serverProcess, srvOs, srvHow,
                   exitCode, signalCode, drvCode, raceWinner, orchExit>>

\* lines 54, 43-45, 56: the inter-poll timer fires and the loop goes round
SleepDone ==
    /\ pc = "sleeping"
    /\ Alive
    /\ now >= sleepDue
    /\ LoopHead(startTime, serverProcess)
    /\ UNCHANGED <<now, startTime, sleepDue, serverProcess, srvOs, srvHow,
                   exitCode, signalCode, drv, drvCode, okSeen, raceWinner,
                   orchExit>>

\* lines 21-27: the driver's 'close' event
DriverClose(code) ==
    /\ pc = "driver"
    /\ Alive
    /\ drv = "running"
    /\ drv' = "closed"
    /\ drvCode' = code
    /\ IF code = 0
       THEN Finally(serverProcess) /\ UNCHANGED caught
       ELSE Catch("driver_exit", serverProcess)
    /\ UNCHANGED <<now, startTime, probeSent, sleepDue, serverProcess, srvOs,
                   srvHow, exitCode, signalCode, okSeen, raceWinner,
                   orchExit>>

\* lines 29-31: the driver's 'error' event (it could not be spawned)
DriverSpawnError ==
    /\ pc = "driver"
    /\ Alive
    /\ drv = "failed"
    /\ drv' = "error"
    /\ Catch("driver_spawn", serverProcess)
    /\ UNCHANGED <<now, startTime, probeSent, sleepDue, serverProcess, srvOs,
                   srvHow, exitCode, signalCode, drvCode, okSeen,
                   raceWinner, orchExit>>

\* --------------------------------------------------- the server process
\* The ways the server can die on its own or by a signal sent so far.
DeathModes ==
    {"code0", "code1", "SIGSEGV"} \cup
    ({signals[i].sig : i \in DOMAIN signals} \ {"SIGKILL"})

\* The server process terminates; Node has not been told yet.
ServerDies(how) ==
    /\ Alive
    /\ srvOs = "running"
    /\ how \in DeathModes
    /\ srvOs' = "dead"
    /\ srvHow' = how
    /\ UNCHANGED <<pc, now, startTime, probeSent, sleepDue, serverProcess,
                   exitCode, signalCode, exitPromise, timer, timerDue, signals,
                   drv, drvCode, caught, okSeen, sdCalls, 
                   raceWinner, sdResult, orchExit>>

\* line 174: SIGKILL, once sent, terminates the server.
ServerKilled ==
    /\ Alive
    /\ srvOs = "running"
    /\ SigkillSent
    /\ srvOs' = "dead"
    /\ srvHow' = "SIGKILL"
    /\ UNCHANGED <<pc, now, startTime, probeSent, sleepDue, serverProcess,
                   exitCode, signalCode, exitPromise, timer, timerDue, signals,
                   drv, drvCode, caught, okSeen, sdCalls, 
                   raceWinner, sdResult, orchExit>>

\* The 'exit' event reaches only the race, not the final await.
ExitEventRaceOnly ==
    /\ Alive
    /\ ~SpawnErrorPending
    /\ srvOs = "dead"
    /\ srvHow # "none"
    /\ srvHow' = "none"
    /\ exitCode' = IF srvHow = "code0" THEN 0 ELSE IF srvHow = "code1" THEN 1 ELSE NoCode
    /\ signalCode' = IF srvHow \in {"code0", "code1"} THEN NoSignal ELSE srvHow
    /\ IF exitPromise = "pending" /\ pc = "sd_race"
       THEN /\ exitPromise' = "resolved"
            /\ raceWinner' = "exit"
            /\ sdResult' = "true"
            /\ pc' = "returned"
       ELSE UNCHANGED <<exitPromise, raceWinner, sdResult, pc>>
    /\ UNCHANGED <<now, startTime, probeSent, sleepDue, serverProcess, srvOs,
                   timer, timerDue, signals, drv, drvCode, caught, okSeen,
                   sdCalls, orchExit>>

\* lines 147, 154, 167-171, 176-177: Node reports the server's exit: it sets
\* exitCode or signalCode and emits 'exit'; the once-listener resolves
\* exitPromise and the code awaiting it continues.
ExitEvent ==
    /\ Alive
    /\ ~SpawnErrorPending
    /\ srvOs = "dead"
    /\ srvHow # "none"
    /\ srvHow' = "none"
    /\ exitCode' = IF srvHow = "code0" THEN 0 ELSE IF srvHow = "code1" THEN 1 ELSE NoCode
    /\ signalCode' = IF srvHow \in {"code0", "code1"} THEN NoSignal ELSE srvHow
    /\ IF exitPromise = "pending"
       THEN /\ exitPromise' = "resolved"
            /\ IF pc = "sd_race"
               THEN /\ raceWinner' = "exit"
                    /\ sdResult' = "true"
                    /\ pc' = "returned"
               ELSE IF pc = "sd_kill_wait"
               THEN /\ sdResult' = "false"
                    /\ pc' = "returned"
                    /\ UNCHANGED raceWinner
               ELSE UNCHANGED <<raceWinner, sdResult, pc>>
       ELSE UNCHANGED <<exitPromise, raceWinner, sdResult, pc>>
    /\ UNCHANGED <<now, startTime, probeSent, sleepDue, serverProcess, srvOs,
                   timer, timerDue, signals, drv, drvCode, caught, okSeen,
                   sdCalls,  orchExit>>

\* lines 167-169: the race is still undecided when the timer fires
TimerWinsAlways == TRUE
TimerWins == pc = "sd_race"

\* lines 173-176: send SIGKILL, then await exitPromise
EscalateNoKill ==
    /\ pc' = "sd_kill_wait"
    /\ UNCHANGED signals
Escalate ==
    /\ signals' = Kill("SIGKILL")
    /\ pc' = "sd_kill_wait"

\* lines 159, 167-176: the escalation timer fires and resolves timeoutPromise
TimerFire ==
    /\ Alive
    /\ timer = "armed"
    /\ now >= timerDue
    /\ timer' = "fired"
    /\ IF TimerWins
       THEN /\ raceWinner' = "timer"
            /\ Escalate
       ELSE UNCHANGED <<raceWinner, signals, pc>>
    /\ UNCHANGED <<now, startTime, probeSent, sleepDue, serverProcess, srvOs,
                   srvHow, exitCode, signalCode, exitPromise, timerDue, drv,
                   drvCode, caught, okSeen, sdCalls, 
                   sdResult, orchExit>>

\* lines 181-182: main has returned and nothing keeps the event loop alive
ProcessExit ==
    /\ Alive
    /\ pc = "returned"
    /\ timer # "armed"
    /\ serverProcess => AlreadyDead
    /\ orchExit' = 0
    /\ UNCHANGED <<pc, now, startTime, probeSent, sleepDue, serverProcess,
                   srvOs, srvHow, exitCode, signalCode, exitPromise, timer,
                   timerDue, signals, drv, drvCode, caught, okSeen,
                   sdCalls,  raceWinner, sdResult>>

\* ----------------------------------------------------------------- time
\* A timer that is due, a pending exit notification or a queued 'error'
\* event runs before the clock moves on.
CallbackDue ==
    \/ SpawnErrorPending
    \/ srvHow # "none"
    \/ pc = "sleeping" /\ now >= sleepDue
    \/ timer = "armed" /\ now >= timerDue

\* Somebody is waiting on the clock.
ClockWatched ==
    \/ pc = "probing" /\ now - probeSent < MaxProbeLatency
    \/ pc = "sleeping"
    \/ timer = "armed"

Tick ==
    /\ Alive
    /\ ~CallbackDue
    /\ ClockWatched
    /\ now' = now + TickMs
    /\ UNCHANGED <<pc, startTime, probeSent, sleepDue, serverProcess, srvOs,
                   srvHow, exitCode, signalCode, exitPromise, timer, timerDue,
                   signals, drv, drvCode, caught, okSeen, sdCalls,  raceWinner, sdResult, orchExit>>

Next ==
    \/ Start
    \/ ServerErrorListener
    \/ \E o \in ProbeOutcomes : ProbeReturn(o)
    \/ SleepDone
    \/ \E c \in DriverCodes : DriverClose(c)
    \/ DriverSpawnError
    \/ \E h \in DeathModes : ServerDies(h)
    \/ ServerKilled
    \/ ExitEvent
    \/ TimerFire
    \/ ProcessExit
    \/ Tick

Spec == Init /\ [][Next]_vars

\* The event loop runs every callback that is ready, the clock advances, and
\* a server that was sent SIGKILL terminates.
LiveSpec ==
    /\ Spec
    /\ WF_vars(Start)
    /\ WF_vars(Tick)
    /\ WF_vars(TimerFire)
    /\ WF_vars(ExitEvent)
    /\ WF_vars(ServerKilled)
    /\ WF_vars(SleepDone)
    /\ WF_vars(ServerErrorListener)
    /\ WF_vars(DriverSpawnError)
    /\ WF_vars(ProcessExit)
    /\ WF_vars(\E o \in ProbeOutcomes : ProbeReturn(o))
    /\ WF_vars(\E c \in DriverCodes : DriverClose(c))

\* ---------------------------------------------------------------- claims
ServerDead == exitCode # NoCode \/ signalCode # NoSignal
Polling == pc \in {"probing", "sleeping"}
ShuttingDown == pc \in {"sd_race", "sd_kill_wait", "returned"}

\* C1: whenever the orchestrator process has terminated in a run in which the
\* server handle was created, gracefulShutdown was called exactly once.
C1_ShutdownOnEveryExit == (~Alive /\ serverProcess) => sdCalls = 1

\* C2: the orchestrator exits with code 0 only if the driver was started and
\* closed with code 0.
C2_ExitCodeContract == orchExit = 0 => (drv = "closed" /\ drvCode = 0)

\* C3: the driver has been spawned only if a probe answered ok before.
C3_DriverOnlyAfterReady == drv # "none" => okSeen
C3_Witness == drv = "running" /\ okSeen

\* C4: a signal has been sent to the server only once polling is over and the
\* driver is no longer running, and once gracefulShutdown has been called no
\* probe is issued and no driver is spawned.
C4_ShutdownLast ==
    /\ [](signals # <<>> => (ShuttingDown /\ drv \notin {"running", "failed"}))
    /\ [][sdCalls > 0 => (pc' \notin {"probing", "sleeping", "driver"} /\ drv' = drv)]_vars
C4_Witness == signals # <<>> /\ drv = "closed" /\ sdCalls = 1

\* C5: a call of gracefulShutdown made when exitCode or signalCode is already
\* set sends no signal, arms no timer, and returns true in that same step; no
\* signal follows later.
C5_AlreadyExitedNoop ==
    /\ [][(sdCalls' = sdCalls + 1 /\ ServerDead)
            => (signals' = <<>> /\ timer' = "none" /\ exitPromise' = "none"
                /\ sdResult' = "true" /\ pc' = "returned")]_vars
    /\ [][(sdResult = "true" /\ timer = "none") => UNCHANGED <<signals, timer, sdResult>>]_vars
C5_Witness == sdCalls = 1 /\ sdResult = "true" /\ timer = "none" /\ signalCode # NoSignal

\* C6: when the exit event arrives while the escalation timer is still armed,
\* gracefulShutdown returns true in that step, SIGKILL is never sent, and
\* nothing of the result changes when the timer fires afterwards.
C6_GracefulRace ==
    /\ [][(exitPromise = "pending" /\ exitPromise' = "resolved" /\ timer = "armed")
            => (sdResult' = "true" /\ pc' = "returned")]_vars
    /\ [](sdResult = "true" => ~SigkillSent)
    /\ [][sdResult = "true" => UNCHANGED <<sdResult, signals, pc>>]_vars
C6_Witness == raceWinner = "exit" /\ timer = "fired" /\ sdResult = "true"

\* C7: SIGKILL is the second signal, sent at least timeoutMs after the
\* initial one, and it is not sent when the exit event won the race.
C7_NoEarlyKill ==
    /\ \A i \in DOMAIN signals :
          signals[i].sig = "SIGKILL" =>
             /\ i = 2
             /\ signals[1].sig = signal
             /\ signals[i].at - signals[1].at >= timeoutMs
    /\ raceWinner = "exit" => ~SigkillSent
C7_Witness == SigkillSent /\ raceWinner = "timer"

\* C8: once the escalation timer is due during the race, either the exit
\* event wins or SIGKILL is sent; after SIGKILL gracefulShutdown is waiting
\* for the exit event without a result; and it eventually returns false.
C8_Escalation ==
    /\ (pc = "sd_race" /\ now >= timerDue) ~> (raceWinner = "exit" \/ SigkillSent)
    /\ [](pc = "sd_kill_wait" => (SigkillSent /\ sdResult = "none" /\ exitPromise = "pending"))
    /\ (raceWinner = "timer") ~> (sdResult = "false")
C8_Witness == sdResult = "false" /\ SigkillSent /\ signalCode = "SIGKILL"

\* C9: once the server's exit has been reported while waitForUrl is polling,
\* no further probe is issued.
C9_AbortsEarly == [][(ServerDead /\ pc = "sleeping") => pc' # "probing"]_vars

\* C10: a probe that fails or answers not-ok is followed by the inter-poll
\* delay of PollDelay ms and then by another deadline check; the only error
\* waitForUrl throws is the timeout, and not before timeout ms have passed.
C10_FailuresAbsorbed ==
    /\ [](caught \in {"none", "timeout", "driver_exit", "driver_spawn", "spawn"})
    /\ [](caught = "timeout" => (now - startTime >= timeout /\ drv = "none"))
    /\ [][(pc = "probing" /\ pc' # "probing" /\ ~okSeen' /\ Alive')
            => (pc' = "sleeping" /\ sleepDue' = now + PollDelay)]_vars
    /\ [][(pc = "sleeping" /\ pc' # "sleeping")
            => \/ pc' = "probing" /\ now - startTime < timeout
               \/ caught' = "timeout" /\ now - startTime >= timeout]_vars
C10_Witness == caught = "timeout" /\ ~okSeen /\ sdCalls = 1

\* C11: waitForUrl throws the timeout error no earlier than timeout ms and
\* no later than timeout + PollDelay ms after startTime.
C11_TimeoutWindow ==
    [][(caught = "none" /\ caught' = "timeout")
         => (now - startTime >= timeout /\ now - startTime <= timeout + PollDelay)]_vars

\* C12: in a run whose server handle was created without a process behind it
\* (the spawn failed), no driver has been started.
C12_NoDriverAfterSpawnFailure ==
    (serverProcess /\ srvOs \notin {"running", "dead"}) => drv = "none"
C12_Witness == srvOs = "failed" /\ orchExit = 1 /\ drv = "none"

\* C13: a readiness timeout, a driver non-zero exit and a driver spawn
\* failure each land in run2's catch block, gracefulShutdown is called in the
\* same step, and the run goes on to return normally (the process never ends
\* with a non-zero code because of them).
C13_FailuresCaptured ==
    /\ [][(caught = "none" /\ caught' \in {"timeout", "driver_exit", "driver_spawn"})
            => (sdCalls' = sdCalls + 1 /\ pc' \in {"sd_race", "returned"})]_vars
    /\ [](caught \in {"timeout", "driver_exit", "driver_spawn"}
            => (sdCalls = 1 /\ ShuttingDown /\ orchExit \in {Running, 0}))
    /\ [][(Polling /\ pc' \notin {"probing", "sleeping", "driver"})
            => caught' = "timeout"]_vars
    /\ [][(pc = "driver" /\ pc' # "driver" /\ drvCode' # 0)
            => caught' \in {"driver_exit", "driver_spawn"}]_vars
C13_Witness == caught = "driver_exit" /\ drvCode = 2 /\ pc = "returned" /\ sdCalls = 1

\* C14: while gracefulShutdown waits after SIGKILL the exit event has not
\* been emitted yet and exitPromise is pending, so a server that is already
\* dead when the wait begins is still observed: the wait ends with false.
C14_ExitNeverLost ==
    /\ [](pc = "sd_kill_wait" => (exitPromise = "pending" /\ ~ServerDead))
    /\ [][(pc = "sd_kill_wait" /\ ServerDead') => (exitPromise' = "resolved" /\ pc' = "returned")]_vars
    /\ (pc = "sd_kill_wait" /\ srvOs = "dead") ~> (pc = "returned" /\ sdResult = "false")
C14_Witness == sdResult = "false" /\ signalCode \in {"SIGTERM", "SIGSEGV"} /\ SigkillSent

\* C15: every run ends: the orchestrator process terminates, and once run2
\* has returned or the process has terminated no server process is running
\* and the server's exit has been reported.
C15_Terminates ==
    /\ <>(~Alive)
    /\ []((pc = "returned" \/ ~Alive) => (srvOs # "running" /\ (srvOs = "dead" => ServerDead)))
C15_Witness == orchExit = 0 /\ srvOs = "dead" /\ ServerDead /\ drvCode = 0

\* C16: the step in which a probe answers ok leaves waitForUrl and starts the
\* driver: no inter-poll delay is set, no new probe is issued, and none
\* follows.
C16_ReturnsAtOnce ==
    /\ [][(pc = "probing" /\ ~okSeen /\ okSeen')
            => (pc' = "driver" /\ drv' # "none" /\ UNCHANGED <<sleepDue, probeSent, now>>)]_vars
    /\ [](okSeen => ~Polling)
C16_Witness == okSeen /\ pc = "driver" /\ probeSent >= 2 * PollDelay

\* C17: once gracefulShutdown has returned the server's exit has been
\* reported, and the result is false exactly when SIGKILL was sent.
C17_ReturnMeansExited ==
    sdResult # "none" =>
        /\ srvOs = "dead"
        /\ ServerDead
        /\ (sdResult = "false") = SigkillSent
C17_Witness == sdResult = "true" /\ raceWinner = "exit" /\ signalCode = "SIGTERM"

C20_SignalsOnce ==
    /\ Len(signals) <= 2
    /\ \A i \in DOMAIN signals :
          /\ signals[i].to = "server"
          /\ signals[i].sig = IF i = 1 THEN signal ELSE "SIGKILL"
          /\ signals[i].at >= signals[1].at
    /\ Cardinality({signals[i].sig : i \in DOMAIN signals}) = Len(signals)
C20_Witness == Len(signals) = 2 /\ sdResult = "false"

====
